---------------------------- MODULE Spec2Model ----------------------------
(***************************************************************************)
(* Model of the bicep-curl repetition counter: the frame loop of main()    *)
(* in bicepApp.py and poseDetector.findAngle in poseestimationmodule.py.   *)
(*                                                                         *)
(* Real numbers are held in fixed point with three decimals: an angle of   *)
(* 270 degrees is 270000, a percentage of 60 is 60000 and a count of 0.5   *)
(* is 500.  Additions of 0.5 and the slope-1 interpolation are exact in    *)
(* binary floating point, so fixed point loses nothing there; atan2 is a   *)
(* table of the directions the landmark grid can produce.                  *)
(***************************************************************************)
EXTENDS Integers, Sequences, FiniteSets, TLC

VARIABLES
    pc,         \* position of main(): "read", "pollReset", "pollQuit", "exited", "done"
    capOpened,  \* cap: the camera is held (VideoCapture(0) .. cap.release())
    windowOpen, \* the "Video" window exists (imshow .. destroyAllWindows())
    lmList,     \* detector.lmList: landmarks of the last frame, << >> when no pose
    angle,      \* local angle of main()
    per,        \* local per of main()
    count,      \* local count of main()
    dir,        \* local dir of main()
    ptime,      \* local ptime of main()
    key,        \* value returned by the latest cv2.waitKey(1)
    draw,       \* draw flag of the latest findAngle call
    overlay     \* angle text findAngle has put on the image, "" when none

vars == <<pc, capOpened, windowOpen, lmList, angle, per, count, dir, ptime,
          key, draw, overlay>>

---------------------------------------------------------------------------
(* Bounds *)

\* landmark pixel coordinates range over 0..MaxCoord
MaxCoord == 1
\* time.time() ranges over 1..MaxTime; no frame is read once ptime = MaxTime
MaxTime == 2

---------------------------------------------------------------------------
(* Program constants *)

Fix(n) == n * 1000

AngleLo == 210
AngleHi == 310
PerLo == 0
PerHi == 100
FullTurn == 360
HalfRep == 500
OrdR == 114
OrdQ == 113
NoKey == -1
Unbound == -1
Shoulder == 12
Elbow == 14
Wrist == 16

EXTENDING == 0
CONTRACTING == 1

KeyCodes == {NoKey, OrdR, OrdQ}

Ids == {Shoulder, Elbow, Wrist}
Coords == 0 .. MaxCoord

\* The frames findPosition can return, restricted to the landmarks main() reads.
LandmarkFrames ==
    {<< >>} \cup
    {[i \in Ids |-> <<i, xy[i][1], xy[i][2]>>] : xy \in [Ids -> Coords \X Coords]}

---------------------------------------------------------------------------
(* poseestimationmodule.py *)

\* atan of a ratio y/x with 0 < y < x, in thousandths of a degree
AtanOctant(y, x) ==
    CASE 2 * y = x     -> 26565
      [] 3 * y = x     -> 18435
      [] 3 * y = 2 * x -> 33690
      [] 4 * y = x     -> 14036
      [] 4 * y = 3 * x -> 36870

\* atan2 for y >= 0, x > 0
AtanQuadrant(y, x) ==
    IF y = 0 THEN 0
    ELSE IF y = x THEN 45000
    ELSE IF y < x THEN AtanOctant(y, x)
    ELSE 90000 - AtanOctant(x, y)

\* math.degrees(math.atan2(y, x)) for integer y, x: a value in (-180, 180];
\* atan2(0, 0) is 0.
Atan2(y, x) ==
    IF x > 0 THEN (IF y >= 0 THEN AtanQuadrant(y, x) ELSE -AtanQuadrant(-y, x))
    ELSE IF x < 0 THEN (IF y >= 0 THEN 180000 - AtanQuadrant(y, -x)
                                  ELSE AtanQuadrant(-y, -x) - 180000)
    ELSE (IF y > 0 THEN 90000 ELSE IF y < 0 THEN -90000 ELSE 0)

\* int(x) of a fixed-point value: truncation toward zero
IntOf(x) == IF x >= 0 THEN x \div 1000 ELSE -((-x) \div 1000)

\* variant of findAngle that also wraps an angle of exactly 0
findAngleWrapAtZero(lm, p1, p2, p3, d) ==
    LET x1 == lm[p1][2]  y1 == lm[p1][3]
        x2 == lm[p2][2]  y2 == lm[p2][3]
        x3 == lm[p3][2]  y3 == lm[p3][3]
        raw == Atan2(y3 - y2, x3 - x2) - Atan2(y1 - y2, x1 - x2)
        a == IF raw <= 0 THEN raw + Fix(FullTurn) ELSE raw
    IN  [angle |-> a, overlay |-> IF d THEN ToString(IntOf(a)) ELSE ""]

\* poseDetector.findAngle: the returned angle and the text drawn on the image
findAngle(lm, p1, p2, p3, d) ==
    LET x1 == lm[p1][2]  y1 == lm[p1][3]
        x2 == lm[p2][2]  y2 == lm[p2][3]
        x3 == lm[p3][2]  y3 == lm[p3][3]
        raw == Atan2(y3 - y2, x3 - x2) - Atan2(y1 - y2, x1 - x2)
        a == IF raw < 0 THEN raw + Fix(FullTurn) ELSE raw
    IN  [angle |-> a, overlay |-> IF d THEN ToString(IntOf(a)) ELSE ""]

---------------------------------------------------------------------------
(* bicepApp.py *)

\* product and quotient of two fixed-point values
FixMul(a, b) == (a * b) \div 1000
FixDiv(a, b) == (a * 1000) \div b

\* variant of np_interp that extends the line beyond the two points
np_interpExtrapolated(x, xlo, xhi, flo, fhi) ==
    FixMul(FixDiv(fhi - flo, xhi - xlo), x - xlo) + flo

\* np.interp(x, (xlo, xhi), (flo, fhi)): slope * (x - xlo) + flo between the
\* two points, the end values outside them
np_interp(x, xlo, xhi, flo, fhi) ==
    IF x <= xlo THEN flo
    ELSE IF x >= xhi THEN fhi
    ELSE FixMul(FixDiv(fhi - flo, xhi - xlo), x - xlo) + flo

\* variant of UpdateRep whose first test ignores dir
UpdateRepNoDirCheck(p, c, d) ==
    LET s1 == IF p = Fix(PerHi)
              THEN [count |-> c + HalfRep, dir |-> CONTRACTING]
              ELSE [count |-> c, dir |-> d]
    IN  IF p = Fix(PerLo) /\ s1.dir = CONTRACTING
        THEN [count |-> s1.count + HalfRep, dir |-> EXTENDING]
        ELSE s1

\* variant of UpdateRep that adds 0.25
UpdateRepQuarter(p, c, d) ==
    LET s1 == IF p = Fix(PerHi) /\ d = EXTENDING
              THEN [count |-> c + HalfRep \div 2, dir |-> CONTRACTING]
              ELSE [count |-> c, dir |-> d]
    IN  IF p = Fix(PerLo) /\ s1.dir = CONTRACTING
        THEN [count |-> s1.count + HalfRep \div 2, dir |-> EXTENDING]
        ELSE s1

\* variant of UpdateRep whose second branch subtracts 0.5
UpdateRepDecrement(p, c, d) ==
    LET s1 == IF p = Fix(PerHi) /\ d = EXTENDING
              THEN [count |-> c + HalfRep, dir |-> CONTRACTING]
              ELSE [count |-> c, dir |-> d]
    IN  IF p = Fix(PerLo) /\ s1.dir = CONTRACTING
        THEN [count |-> s1.count - HalfRep, dir |-> EXTENDING]
        ELSE s1

\* the two if statements that update count and dir from per
UpdateRep(p, c, d) ==
    LET s1 == IF p = Fix(PerHi) /\ d = EXTENDING
              THEN [count |-> c + HalfRep, dir |-> CONTRACTING]
              ELSE [count |-> c, dir |-> d]
    IN  IF p = Fix(PerLo) /\ s1.dir = CONTRACTING
        THEN [count |-> s1.count + HalfRep, dir |-> EXTENDING]
        ELSE s1

\* len(lmList): the number of landmarks held
len(lm) == Cardinality(DOMAIN lm)

\* variant of FrameUpdate with the repetition update outside the if block
FrameUpdateStalePer(lm, a, p, c, d) ==
    IF len(lm) # 0
    THEN LET a2 == findAngle(lm, Shoulder, Elbow, Wrist, FALSE).angle
             p2 == np_interp(a2, Fix(AngleLo), Fix(AngleHi), Fix(PerLo), Fix(PerHi))
             s  == UpdateRep(p2, c, d)
         IN  [angle |-> a2, per |-> p2, count |-> s.count, dir |-> s.dir]
    ELSE LET s == UpdateRep(p, c, d)
         IN  [angle |-> a, per |-> p, count |-> s.count, dir |-> s.dir]

\* the body of "if len(lmList) != 0": angle, per, then the repetition update;
\* with an empty landmark list the locals keep their values
FrameUpdate(lm, a, p, c, d) ==
    IF len(lm) # 0
    THEN LET a2 == findAngle(lm, Shoulder, Elbow, Wrist, FALSE).angle
             p2 == np_interp(a2, Fix(AngleLo), Fix(AngleHi), Fix(PerLo), Fix(PerHi))
             s  == UpdateRep(p2, c, d)
         IN  [angle |-> a2, per |-> p2, count |-> s.count, dir |-> s.dir]
    ELSE [angle |-> a, per |-> p, count |-> c, dir |-> d]

\* variant of ResetRep that leaves dir alone
ResetRepKeepDir(c, d) == [count |-> 0, dir |-> d]

\* the body of the 'r' branch
ResetRep(c, d) == [count |-> 0, dir |-> EXTENDING]

\* cv2.waitKey(1) & 0xFF == ord(...)
IsReset(k) == k % 256 = OrdR
IsQuit(k) == k % 256 = OrdQ

Init ==
    /\ pc = "read"
    /\ capOpened = TRUE
    /\ windowOpen = FALSE
    /\ lmList = << >>
    /\ angle = Unbound
    /\ per = Unbound
    /\ count = 0
    /\ dir = EXTENDING
    /\ ptime = 0
    /\ key = NoKey
    /\ draw = FALSE
    /\ overlay = ""

\* cap.read() returns a frame: pose, landmarks, update, FPS, imshow
ReadFrame ==
    /\ pc = "read"
    /\ ptime < MaxTime
    /\ \E lm \in LandmarkFrames, ctime \in (ptime + 1) .. MaxTime :
          \E u \in {FrameUpdate(lm, angle, per, count, dir)} :
              /\ lmList' = lm
              /\ angle' = u.angle
              /\ per' = u.per
              /\ count' = u.count
              /\ dir' = u.dir
              /\ ptime' = ctime
    /\ windowOpen' = TRUE
    /\ pc' = "pollReset"
    /\ UNCHANGED <<capOpened, key, draw, overlay>>

\* variant of ReadFail that returns from main() instead of breaking
ReadFailReturn ==
    /\ pc = "read"
    /\ pc' = "done"
    /\ UNCHANGED <<capOpened, windowOpen, lmList, angle, per, count, dir,
                   ptime, key, draw, overlay>>

\* cap.read() returns ret = False: the else branch breaks
ReadFail ==
    /\ pc = "read"
    /\ pc' = "exited"
    /\ UNCHANGED <<capOpened, windowOpen, lmList, angle, per, count, dir,
                   ptime, key, draw, overlay>>

\* the first waitKey(1), compared with ord('r')
PollReset ==
    /\ pc = "pollReset"
    /\ \E k \in KeyCodes :
          /\ key' = k
          /\ IF IsReset(k)
             THEN LET s == ResetRep(count, dir)
                  IN  count' = s.count /\ dir' = s.dir
             ELSE UNCHANGED <<count, dir>>
    /\ pc' = "pollQuit"
    /\ UNCHANGED <<capOpened, windowOpen, lmList, angle, per, ptime, draw, overlay>>

\* the second waitKey(1), compared with ord('q')
PollQuit ==
    /\ pc = "pollQuit"
    /\ \E k \in KeyCodes :
          /\ key' = k
          /\ pc' = IF IsQuit(k) THEN "exited" ELSE "read"
    /\ UNCHANGED <<capOpened, windowOpen, lmList, angle, per, count, dir,
                   ptime, draw, overlay>>

\* cap.release(); cv2.destroyAllWindows()
Release ==
    /\ pc = "exited"
    /\ capOpened' = FALSE
    /\ windowOpen' = FALSE
    /\ pc' = "done"
    /\ UNCHANGED <<lmList, angle, per, count, dir, ptime, key, draw, overlay>>

Next == ReadFrame \/ ReadFail \/ PollReset \/ PollQuit \/ Release

Spec == Init /\ [][Next]_vars

\* main() is sequential code: once the loop is left, the release statements run
FairSpec == Spec /\ WF_vars(Release)

---------------------------------------------------------------------------
(* findAngle as a pure function of the detector's landmarks *)

InitAngle ==
    /\ pc = "read"
    /\ capOpened = TRUE
    /\ windowOpen = FALSE
    /\ lmList \in LandmarkFrames \ {<< >>}
    /\ angle = Unbound
    /\ per = Unbound
    /\ count = 0
    /\ dir = EXTENDING
    /\ ptime = 0
    /\ key = NoKey
    /\ draw = FALSE
    /\ overlay = ""

\* detector.findAngle(img, 12, 14, 16, d) on the current landmarks
CallFindAngle ==
    /\ \E d \in BOOLEAN :
          LET r == findAngle(lmList, Shoulder, Elbow, Wrist, d)
          IN  /\ angle' = r.angle
              /\ overlay' = r.overlay
              /\ draw' = d
    /\ UNCHANGED <<pc, capOpened, windowOpen, lmList, per, count, dir, ptime, key>>

\* detector.findPosition on a new frame with a pose
NewLandmarks ==
    /\ lmList' \in LandmarkFrames \ {<< >>}
    /\ angle' = Unbound
    /\ overlay' = ""
    /\ draw' = FALSE
    /\ UNCHANGED <<pc, capOpened, windowOpen, per, count, dir, ptime, key>>

NextAngle == CallFindAngle \/ NewLandmarks

SpecAngle == InitAngle /\ [][NextAngle]_vars

---------------------------------------------------------------------------
(* Properties *)

\* a step that processes one camera frame (lines 89-133)
FrameStep == pc = "read" /\ pc' = "pollReset"

\* the landmarks main() uses do not coincide with the joint vertex
NonCoincident(lm) ==
    /\ <<lm[Shoulder][2], lm[Shoulder][3]>> # <<lm[Elbow][2], lm[Elbow][3]>>
    /\ <<lm[Wrist][2], lm[Wrist][3]>> # <<lm[Elbow][2], lm[Elbow][3]>>

\* C1: on a frame with a pose, percentage 100 while EXTENDING adds 0.5 to
\* count and sets CONTRACTING; percentage 0 while CONTRACTING adds 0.5 and
\* sets EXTENDING; every other percentage and direction (100 again while
\* CONTRACTING included) leaves count and direction as they were.
C1_UpdateStep ==
    [][(FrameStep /\ len(lmList') # 0) =>
          IF per' = Fix(PerHi) /\ dir = EXTENDING
          THEN count' = count + HalfRep /\ dir' = CONTRACTING
          ELSE IF per' = Fix(PerLo) /\ dir = CONTRACTING
          THEN count' = count + HalfRep /\ dir' = EXTENDING
          ELSE count' = count /\ dir' = dir]_vars

\* a frame at 100 percent has been counted as a half repetition
C1_Witness ==
    /\ pc = "pollReset" /\ len(lmList) # 0
    /\ per = Fix(PerHi) /\ dir = CONTRACTING /\ count = HalfRep

\* C2 as stated: the percentage of a frame is the unclamped line through
\* (210, 0) and (310, 100), so an angle below 210 or above 310 gives a
\* percentage outside [0, 100] and leaves count and direction unchanged.
C2_Unclamped ==
    [][(FrameStep /\ len(lmList') # 0) =>
          /\ per' = Fix(PerLo) + ((angle' - Fix(AngleLo)) * (PerHi - PerLo))
                                    \div (AngleHi - AngleLo)
          /\ (angle' < Fix(AngleLo) \/ angle' > Fix(AngleHi)) =>
                /\ (per' < Fix(PerLo) \/ per' > Fix(PerHi))
                /\ count' = count /\ dir' = dir]_vars

\* C2 as amended: the percentage of a frame is the line through (210, 0) and
\* (310, 100) clamped to its end values, 0 for an angle of 210 or less and
\* 100 for an angle of 310 or more; so it always lies in [0, 100], and an
\* angle above 310 while EXTENDING, or below 210 while CONTRACTING, counts a
\* half repetition and flips the direction (otherwise an out-of-range angle
\* changes nothing).
C2_Clamped ==
    [][(FrameStep /\ len(lmList') # 0) =>
          /\ per' = IF angle' <= Fix(AngleLo) THEN Fix(PerLo)
                    ELSE IF angle' >= Fix(AngleHi) THEN Fix(PerHi)
                    ELSE Fix(PerLo) + ((angle' - Fix(AngleLo)) * (PerHi - PerLo))
                                         \div (AngleHi - AngleLo)
          /\ Fix(PerLo) <= per' /\ per' <= Fix(PerHi)
          /\ (angle' > Fix(AngleHi) /\ dir = EXTENDING) =>
                (count' = count + HalfRep /\ dir' = CONTRACTING)
          /\ (angle' < Fix(AngleLo) /\ dir = CONTRACTING) =>
                (count' = count + HalfRep /\ dir' = EXTENDING)
          /\ (angle' > Fix(AngleHi) /\ dir = CONTRACTING) =>
                (count' = count /\ dir' = dir)
          /\ (angle' < Fix(AngleLo) /\ dir = EXTENDING) =>
                (count' = count /\ dir' = dir)]_vars

\* the first frame has an angle above 310 and was counted as a half repetition
C2_Witness ==
    /\ pc = "pollReset" /\ len(lmList) # 0 /\ ptime = 1
    /\ angle > Fix(AngleHi) /\ per = Fix(PerHi) /\ count = HalfRep

\* C3: whichever waitKey call of an iteration returns the reset key, count
\* is 0 and direction EXTENDING right after that poll.
C3_ResetAlwaysClears ==
    (IsReset(key) /\ pc \in {"pollQuit", "read"}) =>
        (count = 0 /\ dir = EXTENDING)

\* C4: the loop goes on to another frame only when no waitKey call of the
\* iteration returned the quit key.
C4_QuitTerminates ==
    [][(pc = "pollQuit" /\ pc' = "read") => (~IsQuit(key) /\ ~IsQuit(key'))]_vars

\* C5: count is never negative and always a multiple of 0.5.
C5_HalfMultiple == count >= 0 /\ count % HalfRep = 0

\* a full repetition has been counted
C5_Witness == count = 2 * HalfRep /\ pc = "pollQuit"

\* C6: count goes down only in the step that polls the reset key, and then
\* to exactly 0; a frame step never lowers it.
C6_Monotone ==
    [][/\ (count' >= count \/ (pc = "pollReset" /\ IsReset(key') /\ count' = 0))
       /\ (FrameStep => count' >= count)]_vars

\* one frame was counted and the reset key then brought count back to 0
C6_Witness ==
    /\ pc = "pollQuit" /\ IsReset(key) /\ ptime = 1
    /\ per = Fix(PerHi) /\ count = 0

\* C7: a frame without landmarks leaves angle, per, count and dir as they
\* were, and the loop goes on to its key polls.
C7_EmptyFrame ==
    [][(pc = "read" /\ pc' # "exited" /\ len(lmList') = 0) =>
          /\ UNCHANGED <<angle, per, count, dir>>
          /\ pc' = "pollReset" /\ capOpened']_vars

\* an empty frame came while the last percentage seen was 100 and the
\* direction, after a reset, EXTENDING
C7_Witness ==
    /\ pc = "pollReset" /\ len(lmList) = 0 /\ ptime = 2
    /\ per = Fix(PerHi) /\ dir = EXTENDING /\ count = 0

\* C8: for landmarks that do not coincide with the vertex, findAngle returns
\* atan2(p3 - p2) - atan2(p1 - p2) brought into [0, 360), and the call with
\* the other draw flag returns the same value.
C8_AngleRange ==
    (angle # Unbound /\ NonCoincident(lmList)) =>
        /\ 0 <= angle /\ angle < Fix(FullTurn)
        /\ angle = (Atan2(lmList[Wrist][3] - lmList[Elbow][3],
                          lmList[Wrist][2] - lmList[Elbow][2])
                    - Atan2(lmList[Shoulder][3] - lmList[Elbow][3],
                            lmList[Shoulder][2] - lmList[Elbow][2]))
                   % Fix(FullTurn)
        /\ angle = findAngle(lmList, Shoulder, Elbow, Wrist, ~draw).angle

\* findAngle drew and returned the angle of two coinciding rays
C8_Witness ==
    /\ draw /\ NonCoincident(lmList) /\ angle = 0 /\ overlay = "0"
    /\ lmList[Shoulder][2] = lmList[Wrist][2]
    /\ lmList[Shoulder][3] = lmList[Wrist][3]

\* C9: once the loop has been left, by the quit key or by a failed read, the
\* camera and the windows are released.
C9_Released == (pc \in {"exited", "done"}) ~> (~capOpened /\ ~windowOpen)

\* the loop ended on a failed read after a frame had been shown, and
\* everything is released
C9_Witness ==
    /\ pc = "done" /\ ~IsQuit(key) /\ ptime > 0
    /\ ~capOpened /\ ~windowOpen

\* C10: direction is CONTRACTING exactly when count is an odd multiple of
\* 0.5 and EXTENDING exactly when it is whole, and int(count) grows only on
\* a frame whose percentage is 0.
C10_Parity ==
    /\ [](dir = CONTRACTING <=> count % (2 * HalfRep) = HalfRep)
    /\ [](dir = EXTENDING <=> count % (2 * HalfRep) = 0)
    /\ [][IntOf(count') > IntOf(count) =>
             (FrameStep /\ len(lmList') # 0 /\ per' = Fix(PerLo))]_vars

\* the displayed count has just grown to 1 on a frame at 0 percent
C10_Witness ==
    /\ pc = "pollReset" /\ len(lmList) # 0
    /\ per = Fix(PerLo) /\ dir = EXTENDING /\ count = 2 * HalfRep

===========================================================================
